---------------------------- MODULE Spec2Model ----------------------------
(***************************************************************************)
(* Model of milk_delivery_app.py: the Streamlit session state              *)
(* (selected_year, price_per_kg, df, preserved_delivery_data, saved_data)  *)
(* and the script main(), which the host re-executes on every user         *)
(* interaction.  One action is one user interaction: the run of main() it  *)
(* triggers, followed by the re-execution requested by st.rerun(), up to   *)
(* the run that completes and leaves the page rendered.  Every state of    *)
(* Spec is therefore a rendered state.                                     *)
(*                                                                         *)
(* Prices are whole rupees (the floats of the source restricted to         *)
(* integral values, on which float multiplication by a day count is        *)
(* exact).  A month label f"{name} {str(year)[-2:]}" is the pair           *)
(* <<name, last two decimal digits of the year>>.                          *)
(*                                                                         *)
(* A widget returns the user's entry in the run the entry triggers and the *)
(* value= it is given (the session's year or price) otherwise; one         *)
(* interaction changes one widget.  The table editor yields integer cells  *)
(* within its column bounds and resets its edits when the table it is      *)
(* given changes.                                                          *)
(***************************************************************************)
EXTENDS Integers, Sequences, FiniteSets, TLC

VARIABLES selected_year, price_per_kg, df, preserved_delivery_data,
          saved_data, message, lastEvent, hist, fn

vars == <<selected_year, price_per_kg, df, preserved_delivery_data,
          saved_data, message, lastEvent, hist, fn>>

(***************************************************************************)
(* Program constants                                                       *)
(***************************************************************************)
YearMin == 2020

YearMax == 2030

PriceMin == 1

PriceMax == 200

DefaultPrice == 55

EditMin == 0

EditMax == 31

MayIndex == 5

MayNotDelivered == 12

NumMonths == 12

(***************************************************************************)
(* Bounds of the model                                                     *)
(***************************************************************************)
FirstYear == 2024

LastYear == 2025

MaxPrice == 56

LowEdit == 0

LastEditMonth == 2

Years == {y \in YearMin..YearMax : FirstYear <= y /\ y <= LastYear}

Prices == {p \in PriceMin..PriceMax : DefaultPrice <= p /\ p <= MaxPrice}

EditValues == {v \in EditMin..EditMax : v <= LowEdit \/ v = EditMax}

EditMonths == 2..LastEditMonth

GenYears == {1900, 2000, 2023, 2024, 2100}

(***************************************************************************)
(* get_months_data and the calendar facts it uses                          *)
(***************************************************************************)
months_names == <<"Jan", "Feb", "Mar", "Apr", "May", "Jun",
                  "Jul", "Aug", "Sep", "Oct", "Nov", "Dec">>

mdays == <<31, 28, 31, 30, 31, 30, 31, 31, 30, 31, 30, 31>>

isleap_julian(year) == year % 4 = 0

isleap(year) == year % 4 = 0 /\ (year % 100 # 0 \/ year % 400 = 0)

monthrange(year, month) ==
    mdays[month] + (IF month = 2 /\ isleap(year) THEN 1 ELSE 0)

RECURSIVE str(_)
str(n) == IF n < 10 THEN <<n>> ELSE str(n \div 10) \o <<n % 10>>

Last2(s) == IF Len(s) <= 2 THEN s ELSE SubSeq(s, Len(s) - 1, Len(s))

get_months_data(year, price) ==
    [i \in 1..NumMonths |->
        [Month                |-> <<months_names[i], Last2(str(year))>>,
         Days                 |-> monthrange(year, i),
         per_Kg_in_Rs         |-> price,
         Milk_Not_Delivered   |-> 0,
         Total_Delivered_Milk |-> monthrange(year, i),
         Amt_in_Rs            |-> monthrange(year, i) * price]]

(***************************************************************************)
(* calculate_amounts                                                       *)
(***************************************************************************)
calculate_amounts_stale_price(d, price) ==
    [i \in DOMAIN d |->
        [d[i] EXCEPT
            !.Total_Delivered_Milk = d[i].Days - d[i].Milk_Not_Delivered,
            !.Amt_in_Rs = (d[i].Days - d[i].Milk_Not_Delivered) * price]]

calculate_amounts_cumulative(d, price) ==
    [i \in DOMAIN d |->
        [d[i] EXCEPT
            !.Total_Delivered_Milk =
                d[i].Total_Delivered_Milk - d[i].Milk_Not_Delivered,
            !.per_Kg_in_Rs = price,
            !.Amt_in_Rs =
                (d[i].Total_Delivered_Milk - d[i].Milk_Not_Delivered) * price]]

calculate_amounts(d, price) ==
    [i \in DOMAIN d |->
        [d[i] EXCEPT
            !.Total_Delivered_Milk = d[i].Days - d[i].Milk_Not_Delivered,
            !.per_Kg_in_Rs = price,
            !.Amt_in_Rs = (d[i].Days - d[i].Milk_Not_Delivered) * price]]

(***************************************************************************)
(* The session and the handlers of main()                                  *)
(***************************************************************************)
Unset == [set |-> FALSE, val |-> <<>>]

Value(v) == [set |-> TRUE, val |-> v]

Session ==
    [selected_year           |-> selected_year,
     price_per_kg            |-> price_per_kg,
     df                      |-> df,
     preserved_delivery_data |-> preserved_delivery_data,
     saved_data              |-> saved_data,
     message                 |-> message]

NoEvent == [kind |-> "none", year |-> 0, price |-> 0, month |-> 0, value |-> 0]

YearEvent(y) == [NoEvent EXCEPT !.kind = "year", !.year = y]

PriceEvent(p) == [NoEvent EXCEPT !.kind = "price", !.price = p]

EditEvent(i, v) == [NoEvent EXCEPT !.kind = "edit", !.month = i, !.value = v]

ButtonEvent(k) == [NoEvent EXCEPT !.kind = k]

\* st.number_input "year_input": the user's value, else the session's year.
year_input(s, ev) == IF ev.kind = "year" THEN ev.year ELSE s.selected_year

\* st.number_input "price_input": the user's value, else the session's price.
price_input(s, ev) == IF ev.kind = "price" THEN ev.price ELSE s.price_per_kg

YearChanged_fresh(s, y) ==
    [s EXCEPT !.selected_year = y,
              !.df = get_months_data(y, s.price_per_kg)]

YearChanged(s, y) ==
    LET months_data == get_months_data(y, s.price_per_kg)
        p == s.preserved_delivery_data
    IN  [s EXCEPT
            !.selected_year = y,
            !.df = IF ~p.set THEN months_data
                   ELSE IF Len(p.val) = NumMonths
                        THEN [i \in 1..NumMonths |->
                                [months_data[i] EXCEPT
                                    !.Milk_Not_Delivered = p.val[i]]]
                        ELSE months_data]

PriceChanged(s, new_price) ==
    IF new_price # s.price_per_kg
    THEN [s EXCEPT !.price_per_kg = new_price]
    ELSE s

SaveData(s) == [s EXCEPT !.saved_data = Value(s.df), !.message = "saved"]

LoadData_keep(s) ==
    IF s.saved_data.set
    THEN [s EXCEPT !.message = "loaded"]
    ELSE [s EXCEPT !.message = "warning"]

LoadData_regenerate(s) ==
    IF s.saved_data.set
    THEN [s EXCEPT !.df = s.saved_data.val, !.message = "loaded"]
    ELSE [s EXCEPT !.df = get_months_data(s.selected_year, s.price_per_kg),
                   !.message = "warning"]

LoadData(s) ==
    IF s.saved_data.set
    THEN [s EXCEPT !.df = s.saved_data.val, !.message = "loaded"]
    ELSE [s EXCEPT !.message = "warning"]

ResetToDefault_keep_price(s) ==
    LET fresh == get_months_data(s.selected_year, DefaultPrice)
        seeded == [fresh EXCEPT ![MayIndex].Milk_Not_Delivered = MayNotDelivered]
    IN  [s EXCEPT !.df = calculate_amounts(seeded, s.price_per_kg),
                  !.message = "reset"]

ResetToDefault(s) ==
    LET fresh == get_months_data(s.selected_year, DefaultPrice)
        s1 == [s EXCEPT !.df = fresh, !.price_per_kg = DefaultPrice]
    IN  IF Len(s1.df) > MayIndex - 1
        THEN [s1 EXCEPT
                !.df = calculate_amounts(
                          [fresh EXCEPT ![MayIndex].Milk_Not_Delivered =
                                            MayNotDelivered],
                          s1.price_per_kg),
                !.message = "reset"]
        ELSE [s1 EXCEPT !.message = "reset"]

\* st.data_editor: the table shown, with the user's cell edit applied.
data_editor(d, ev) ==
    IF ev.kind = "edit"
    THEN [d EXCEPT ![ev.month].Milk_Not_Delivered = ev.value]
    ELSE d

EditApplied(s, edited_df) ==
    [s EXCEPT
        !.preserved_delivery_data =
            Value([i \in 1..Len(edited_df) |-> edited_df[i].Milk_Not_Delivered]),
        !.df = calculate_amounts(edited_df, s.price_per_kg)]

\* One execution of the script; rerun tells whether it ended in st.rerun().
main(s0, ev) ==
    LET s == [s0 EXCEPT !.message = "none"]
        y == year_input(s, ev)
    IN  IF y # s.selected_year
        THEN [s |-> YearChanged(s, y), rerun |-> TRUE]
        ELSE LET s1 == PriceChanged(s, price_input(s, ev))
                 s2 == IF ev.kind = "save" THEN SaveData(s1) ELSE s1
                 s3 == IF ev.kind = "load" THEN LoadData(s2) ELSE s2
                 s4 == IF ev.kind = "reset" THEN ResetToDefault(s3) ELSE s3
                 s5 == [s4 EXCEPT !.df = calculate_amounts(s4.df, s4.price_per_kg)]
                 edited_df == data_editor(s5.df, ev)
             IN  IF edited_df # s5.df
                 THEN [s |-> EditApplied(s5, edited_df), rerun |-> TRUE]
                 ELSE [s |-> s5, rerun |-> FALSE]

\* The runs one interaction causes, up to the run that renders the page.
Interaction(s, ev) ==
    LET r == main(s, ev)
    IN  IF r.rerun THEN main(r.s, NoEvent).s ELSE r.s

(***************************************************************************)
(* Harness for the pure functions                                          *)
(***************************************************************************)
FnIdle == [pc |-> "idle", year |-> 0, price |-> 0, gen |-> <<>>,
           L |-> <<>>, once |-> <<>>, twice |-> <<>>]

\* A ledger with edited days_not_delivered and arbitrary stored derived fields.
TamperedLedger(year, price0, ndFeb, ndMay, off) ==
    [i \in 1..NumMonths |->
        [get_months_data(year, price0)[i] EXCEPT
            !.Milk_Not_Delivered =
                IF i = 2 THEN ndFeb ELSE IF i = MayIndex THEN ndMay ELSE 0,
            !.Total_Delivered_Milk = @ - off,
            !.Amt_in_Rs = @ + off]]

(***************************************************************************)
(* Specification of the session                                            *)
(***************************************************************************)
HistInit == [everEdited |-> FALSE, lastEdit |-> <<>>,
             resetNoEditSince |-> FALSE, ledgerAtSave |-> <<>>,
             priceAtSave |-> 0]

Init ==
    /\ selected_year \in Years
    /\ price_per_kg = DefaultPrice
    /\ df = get_months_data(selected_year, DefaultPrice)
    /\ preserved_delivery_data = Unset
    /\ saved_data = Unset
    /\ message = "none"
    /\ lastEvent = "none"
    /\ hist = HistInit
    /\ fn = FnIdle

Apply(s) ==
    /\ selected_year' = s.selected_year
    /\ price_per_kg' = s.price_per_kg
    /\ df' = s.df
    /\ preserved_delivery_data' = s.preserved_delivery_data
    /\ saved_data' = s.saved_data
    /\ message' = s.message
    /\ fn' = fn

YearChange ==
    \E y \in Years :
        /\ y # selected_year
        /\ Apply(Interaction(Session, YearEvent(y)))
        /\ lastEvent' = "year"
        /\ hist' = hist

PriceChange ==
    \E p \in Prices :
        /\ p # price_per_kg
        /\ Apply(Interaction(Session, PriceEvent(p)))
        /\ lastEvent' = "price"
        /\ hist' = hist

CellEdit ==
    \E i \in EditMonths, v \in EditValues :
        /\ v # df[i].Milk_Not_Delivered
        /\ Apply(Interaction(Session, EditEvent(i, v)))
        /\ lastEvent' = "edit"
        /\ hist' = [hist EXCEPT
                      !.everEdited = TRUE,
                      !.lastEdit = [k \in 1..NumMonths |->
                                      IF k = i THEN v
                                      ELSE df[k].Milk_Not_Delivered],
                      !.resetNoEditSince = FALSE]

Save ==
    /\ Apply(Interaction(Session, ButtonEvent("save")))
    /\ lastEvent' = "save"
    /\ hist' = [hist EXCEPT !.ledgerAtSave = df, !.priceAtSave = price_per_kg]

Load ==
    /\ Apply(Interaction(Session, ButtonEvent("load")))
    /\ lastEvent' = "load"
    /\ hist' = hist

Reset ==
    /\ Apply(Interaction(Session, ButtonEvent("reset")))
    /\ lastEvent' = "reset"
    /\ hist' = [hist EXCEPT !.resetNoEditSince = TRUE]

Next == YearChange \/ PriceChange \/ CellEdit \/ Save \/ Load \/ Reset

Spec == Init /\ [][Next]_vars

(***************************************************************************)
(* Specification of the pure functions                                     *)
(***************************************************************************)
SessionVars == <<selected_year, price_per_kg, df, preserved_delivery_data,
                 saved_data, message, lastEvent, hist>>

InitFn ==
    /\ selected_year = FirstYear
    /\ price_per_kg = DefaultPrice
    /\ df = get_months_data(FirstYear, DefaultPrice)
    /\ preserved_delivery_data = Unset
    /\ saved_data = Unset
    /\ message = "none"
    /\ lastEvent = "none"
    /\ hist = HistInit
    /\ \E y \in GenYears, p \in Prices, p0 \in Prices,
          ndFeb \in EditValues, ndMay \in EditValues, off \in 0..1 :
        fn = [pc |-> "start", year |-> y, price |-> p, gen |-> <<>>,
              L |-> TamperedLedger(y, p0, ndFeb, ndMay, off),
              once |-> <<>>, twice |-> <<>>]

Generate ==
    /\ fn.pc = "start"
    /\ fn' = [fn EXCEPT !.pc = "generated",
                        !.gen = get_months_data(fn.year, fn.price)]
    /\ UNCHANGED SessionVars

CalcOnce ==
    /\ fn.pc = "generated"
    /\ fn' = [fn EXCEPT !.pc = "once", !.once = calculate_amounts(fn.L, fn.price)]
    /\ UNCHANGED SessionVars

CalcTwice ==
    /\ fn.pc = "once"
    /\ fn' = [fn EXCEPT !.pc = "twice",
                        !.twice = calculate_amounts(fn.once, fn.price)]
    /\ UNCHANGED SessionVars

NextFn == Generate \/ CalcOnce \/ CalcTwice

SpecFn == InitFn /\ [][NextFn]_vars

(***************************************************************************)
(* Properties                                                              *)
(***************************************************************************)
Months == 1..NumMonths

GregorianLeap(Y) == Y % 4 = 0 /\ (Y % 100 # 0 \/ Y % 400 = 0)

GregorianDays(Y) ==
    <<31, IF GregorianLeap(Y) THEN 29 ELSE 28, 31, 30, 31, 30,
      31, 31, 30, 31, 30, 31>>

RECURSIVE SumDays(_, _)
SumDays(d, n) == IF n = 0 THEN 0 ELSE SumDays(d, n - 1) + d[n].Days

\* C1: in every rendered ledger each record has
\* 0 <= days_not_delivered <= days_in_month, so days_delivered is never
\* negative, whatever edits and year changes came before.
C1_NotDeliveredWithinMonth ==
    \A i \in Months :
        /\ 0 <= df[i].Milk_Not_Delivered
        /\ df[i].Milk_Not_Delivered <= df[i].Days
        /\ df[i].Total_Delivered_Milk >= 0

\* C2: in every rendered state each of the 12 records has
\* days_delivered = days_in_month - days_not_delivered, price_per_kg = the
\* session's current price and amount = days_delivered * price_per_kg.
C2_DerivedFieldsFresh ==
    /\ Len(df) = NumMonths
    /\ \A i \in Months :
        /\ df[i].Total_Delivered_Milk = df[i].Days - df[i].Milk_Not_Delivered
        /\ df[i].per_Kg_in_Rs = price_per_kg
        /\ df[i].Amt_in_Rs = df[i].Total_Delivered_Milk * price_per_kg

\* A year change that re-applied a preserved edit vector, under a price
\* other than the default: the run that regenerated the table stored stale
\* derived fields.
C2_Witness ==
    /\ lastEvent = "year"
    /\ preserved_delivery_data.set
    /\ price_per_kg # DefaultPrice
    /\ \E i \in Months : df[i].Milk_Not_Delivered # 0

\* C3: get_months_data(Y, p) is 12 records in calendar order with the
\* Gregorian month lengths of Y (summing to 366 iff Y is a Gregorian leap
\* year, else 365), days_not_delivered = 0, days_delivered = days_in_month
\* and amount = days_in_month * p; it is determined by (Y, p) alone.
C3_GenerateCalendar ==
    fn.pc \in {"generated", "once", "twice"} =>
        /\ Len(fn.gen) = 12
        /\ \A i \in 1..12 :
            /\ fn.gen[i].Month[1] = months_names[i]
            /\ fn.gen[i].Days = GregorianDays(fn.year)[i]
            /\ fn.gen[i].per_Kg_in_Rs = fn.price
            /\ fn.gen[i].Milk_Not_Delivered = 0
            /\ fn.gen[i].Total_Delivered_Milk = fn.gen[i].Days
            /\ fn.gen[i].Amt_in_Rs = fn.gen[i].Days * fn.price
        /\ SumDays(fn.gen, 12) = (IF GregorianLeap(fn.year) THEN 366 ELSE 365)
        /\ SumDays(fn.gen, 12) \in {365, 366}

\* A century year that is not a leap year has been generated.
C3_Witness ==
    /\ fn.pc = "generated"
    /\ fn.year % 100 = 0
    /\ fn.year % 400 # 0
    /\ fn.gen[2].Days = 28

\* C4 (as claimed): the ledger rendered right after a load equals, in every
\* field, the ledger as it was when last saved, and no action other than a
\* save alters the stored snapshot.
C4_LoadVerbatim ==
    [][/\ (lastEvent' = "load" /\ saved_data.set) => df' = hist.ledgerAtSave
       /\ lastEvent' # "save" => saved_data' = saved_data]_vars

\* C4 (amended): the ledger rendered right after a load has the saved
\* ledger's month_label, days_in_month, days_not_delivered and
\* days_delivered, the session's current price as price_per_kg and
\* days_delivered * current price as amount; it equals the saved ledger in
\* every field when the session price is the price at the time of the save;
\* and no action other than a save alters the stored snapshot.
C4_LoadRestoresUpToPrice ==
    [][/\ (lastEvent' = "load" /\ saved_data.set) =>
            /\ saved_data.val = hist.ledgerAtSave
            /\ Len(df') = Len(hist.ledgerAtSave)
            /\ \A i \in Months :
                /\ df'[i].Month = hist.ledgerAtSave[i].Month
                /\ df'[i].Days = hist.ledgerAtSave[i].Days
                /\ df'[i].Milk_Not_Delivered =
                       hist.ledgerAtSave[i].Milk_Not_Delivered
                /\ df'[i].Total_Delivered_Milk =
                       hist.ledgerAtSave[i].Total_Delivered_Milk
                /\ df'[i].per_Kg_in_Rs = price_per_kg'
                /\ df'[i].Amt_in_Rs =
                       hist.ledgerAtSave[i].Total_Delivered_Milk * price_per_kg'
            /\ price_per_kg' = hist.priceAtSave => df' = hist.ledgerAtSave
       /\ lastEvent' # "save" => saved_data' = saved_data]_vars

\* A load of a snapshot saved under another price, another year and other
\* days_not_delivered than the session had before the load.
C4_Witness ==
    /\ lastEvent = "load"
    /\ saved_data.set
    /\ df[1].per_Kg_in_Rs # saved_data.val[1].per_Kg_in_Rs
    /\ df[2].Days # monthrange(selected_year, 2)
    /\ preserved_delivery_data.set
    /\ preserved_delivery_data.val[2] # df[2].Milk_Not_Delivered

\* C5: right after a year change the ledger is the one generated for the
\* new year and the current price, with every month's days_not_delivered
\* equal to the vector retained at the most recent cell edit (all 0 when no
\* cell was ever edited), and consistent derived fields.
C5_YearChangeReappliesEdits ==
    lastEvent = "year" =>
        /\ Len(df) = NumMonths
        /\ \A i \in Months :
            /\ df[i].Month = <<months_names[i], Last2(str(selected_year))>>
            /\ df[i].Days = GregorianDays(selected_year)[i]
            /\ df[i].per_Kg_in_Rs = price_per_kg
            /\ df[i].Milk_Not_Delivered =
                   (IF hist.everEdited THEN hist.lastEdit[i] ELSE 0)
            /\ df[i].Total_Delivered_Milk =
                   df[i].Days - df[i].Milk_Not_Delivered
            /\ df[i].Amt_in_Rs = df[i].Total_Delivered_Milk * price_per_kg

\* A year change after an edit that left a non-zero value.
C5_Witness ==
    /\ lastEvent = "year"
    /\ hist.everEdited
    /\ \E i \in Months : hist.lastEdit[i] # 0 /\ df[i].Milk_Not_Delivered # 0

\* C6: right after a reset the session price is 55 and the ledger is
\* get_months_data(selected_year, 55) except that May has
\* days_not_delivered = 12, days_delivered = 19 and amount = 1045.
C6_ResetToDefault ==
    lastEvent = "reset" =>
        /\ price_per_kg = 55
        /\ Len(df) = 12
        /\ \A i \in (1..12) \ {5} :
            /\ df[i] = get_months_data(selected_year, 55)[i]
            /\ df[i].Milk_Not_Delivered = 0
            /\ df[i].Amt_in_Rs = df[i].Days * 55
        /\ df[5] = [get_months_data(selected_year, 55)[5] EXCEPT
                       !.Milk_Not_Delivered = 12,
                       !.Total_Delivered_Milk = 19,
                       !.Amt_in_Rs = 1045]
        /\ message = "reset"

\* A reset from a session with an edited cell, a snapshot and a price other
\* than the default in the ledger just before it.
C6_Witness ==
    /\ lastEvent = "reset"
    /\ preserved_delivery_data.set
    /\ preserved_delivery_data.val[2] # 0
    /\ saved_data.set
    /\ saved_data.val[1].per_Kg_in_Rs # DefaultPrice

\* C7: calculate_amounts applied twice with the same price gives, in every
\* field of every record, what one application gives, and no application
\* changes month_label, days_in_month or days_not_delivered.
C7_CalculateIdempotent ==
    /\ fn.pc \in {"once", "twice"} =>
        /\ Len(fn.once) = Len(fn.L)
        /\ \A i \in Months :
            /\ fn.once[i].Month = fn.L[i].Month
            /\ fn.once[i].Days = fn.L[i].Days
            /\ fn.once[i].Milk_Not_Delivered = fn.L[i].Milk_Not_Delivered
    /\ fn.pc = "twice" => fn.twice = fn.once

\* Two applications to a ledger whose stored derived fields were stale and
\* whose February has more days not delivered than days.
C7_Witness ==
    /\ fn.pc = "twice"
    /\ fn.L[2].Milk_Not_Delivered > fn.L[2].Days
    /\ fn.L[1].Total_Delivered_Milk # fn.L[1].Days
    /\ fn.L[1].per_Kg_in_Rs # fn.price
    /\ fn.once # fn.L

\* C8: a load when nothing was ever saved reports a warning and leaves the
\* ledger, the session price, the selected year and the preserved edit
\* vector as they were.
C8_LoadWithoutSaveNoOp ==
    [][(lastEvent' = "load" /\ ~saved_data.set) =>
          /\ message' = "warning"
          /\ ~saved_data'.set
          /\ UNCHANGED <<df, price_per_kg, selected_year,
                         preserved_delivery_data>>]_vars

\* A load without a snapshot, in a session that is no longer the initial
\* one (edited cell, non-default price).
C8_Witness ==
    /\ lastEvent = "load"
    /\ message = "warning"
    /\ ~saved_data.set
    /\ price_per_kg # DefaultPrice
    /\ \E i \in Months : df[i].Milk_Not_Delivered # 0

\* C9: after a reset with no cell edit since, a year change does not bring
\* back days_not_delivered values entered before the reset: the regenerated
\* ledger has none.
C9_ResetDiscardsEdits ==
    (lastEvent = "year" /\ hist.resetNoEditSince) =>
        \A i \in Months : df[i].Milk_Not_Delivered = 0

\* C10: in every rendered state the ledger belongs to the selected year:
\* each record has that year's month length and a label with the last two
\* digits of that year.
C10_LedgerOfSelectedYear ==
    \A i \in Months :
        /\ df[i].Days = GregorianDays(selected_year)[i]
        /\ df[i].Month = <<months_names[i], Last2(str(selected_year))>>

=============================================================================
